---- MODULE Spec2Model ----
(***************************************************************************)
(* TPDb Collection Maker (main.py): Content (title parsing, rendering) and *)
(* ContentList (add_content, print).                                       *)
(*                                                                         *)
(* Titles are sequences of one-character strings, so that the two regular  *)
(* expressions and the substring tests act on characters as in the code.   *)
(* Titles are single-line text: no character of the alphabet is a line     *)
(* break, so the regex dot matches every character.                        *)
(* Content objects live in a heap (objs); buckets and sub_content hold     *)
(* references (indices into objs), as Python lists and dicts do.           *)
(***************************************************************************)
EXTENDS Integers, Sequences, FiniteSets

VARIABLES objs, content, always_quote, raised, stdout, poster_element

vars == <<objs, content, always_quote, raised, stdout, poster_element>>

(* ------------------------------ bounds --------------------------------- *)
MaxRecords == 4
MaxPrints == 2
MaxChunks == 3

(* --------------------------- character data ---------------------------- *)
Digits == {"0", "1", "2", "3", "4", "5", "6", "7", "8", "9"}

IsDigit(c) == c \in Digits

DigitVal(c) ==
  CASE c = "0" -> 0 [] c = "1" -> 1 [] c = "2" -> 2 [] c = "3" -> 3
    [] c = "4" -> 4 [] c = "5" -> 5 [] c = "6" -> 6 [] c = "7" -> 7
    [] c = "8" -> 8 [] c = "9" -> 9

RECURSIVE int(_)
int(ds) ==
  IF ds = << >> THEN 0
  ELSE 10 * int(SubSeq(ds, 1, Len(ds) - 1)) + DigitVal(ds[Len(ds)])

None == -1

SetMax(S) == CHOOSE m \in S : \A k \in S : k <= m

(* s[p..] starts with the literal lit *)
StartsWithAt(s, p, lit) ==
  /\ p + Len(lit) - 1 <= Len(s)
  /\ SubSeq(s, p, p + Len(lit) - 1) = lit

(* "needle in haystack" of Python *)
Contains(haystack, needle) ==
  \E p \in 1..(Len(haystack) + 1) : StartsWithAt(haystack, p, needle)

(* end (exclusive) of the longest run of digits that starts at p *)
DigitRunEnd(s, p) ==
  CHOOSE q \in p..(Len(s) + 1) :
    /\ \A k \in p..(q - 1) : IsDigit(s[k])
    /\ (q = Len(s) + 1 \/ ~IsDigit(s[q]))

LitOpenParen == <<" ", "(">>
LitDash == <<" ", "-", " ">>
LitSeason == <<"S", "e", "a", "s", "o", "n", " ">>
LitSpecials == <<"S", "p", "e", "c", "i", "a", "l", "s">>
LitColon == <<":", " ">>

(* ------------------------------ regexes -------------------------------- *)
\* YEARLESS_REGEX: start, any prefix (group 1, greedy), a space, a
\* parenthesised run of one or more digits, then one of three alternatives:
\* end of string; " - Season " and digits; the bare word "Specials".
\* re.match does not anchor the end, so the last two may be followed by
\* anything.
YearlessTail(s, r) ==
  \/ r = Len(s) + 1
  \/ /\ StartsWithAt(s, r, LitDash \o LitSeason)
     /\ r + 10 <= Len(s)
     /\ IsDigit(s[r + 10])
  \/ StartsWithAt(s, r, LitSpecials)

(* the match succeeds with group(1) = s[1..i] *)
YearlessMatchAt(s, i) ==
  /\ StartsWithAt(s, i + 1, LitOpenParen)
  /\ LET q == DigitRunEnd(s, i + 3)
     IN /\ q > i + 3
        /\ q <= Len(s)
        /\ s[q] = ")"
        /\ YearlessTail(s, q + 1)

(* group 1 taken lazily: the shortest prefix that lets the rest match *)
YEARLESS_REGEX_Lazy(s) ==
  LET I == {i \in 0..Len(s) : YearlessMatchAt(s, i)}
  IN IF I = {} THEN [matched |-> FALSE, group1 |-> << >>]
     ELSE [matched |-> TRUE,
           group1 |-> SubSeq(s, 1, CHOOSE i \in I : \A k \in I : i <= k)]

(* group 1 is greedy: the longest prefix that lets the rest match *)
YEARLESS_REGEX(s) ==
  LET I == {i \in 0..Len(s) : YearlessMatchAt(s, i)}
  IN IF I = {} THEN [matched |-> FALSE, group1 |-> << >>]
     ELSE [matched |-> TRUE, group1 |-> SubSeq(s, 1, SetMax(I))]

(* the season pattern without its end anchor *)
SEASON_REGEX_Unanchored(s) ==
  LET D(i) == /\ StartsWithAt(s, i + 1, LitDash \o LitSeason)
              /\ i + 11 <= Len(s)
              /\ IsDigit(s[i + 11])
      P(i) == StartsWithAt(s, i + 1, LitDash \o LitSpecials)
      I == {i \in 0..Len(s) : D(i) \/ P(i)}
  IN IF I = {} THEN [matched |-> FALSE, group1 |-> << >>, group2 |-> << >>]
     ELSE LET i == SetMax(I)
          IN IF D(i)
             THEN [matched |-> TRUE,
                   group1 |-> SubSeq(s, i + 11, DigitRunEnd(s, i + 11) - 1),
                   group2 |-> << >>]
             ELSE [matched |-> TRUE, group1 |-> << >>, group2 |-> LitSpecials]

\* SEASON_REGEX: start, any prefix (greedy), " - ", then either "Season "
\* and digits (group 1) or "Specials" (group 2), then end of string.
SeasonDigitsAt(s, i) ==
  /\ StartsWithAt(s, i + 1, LitDash \o LitSeason)
  /\ i + 11 <= Len(s)
  /\ DigitRunEnd(s, i + 11) = Len(s) + 1

SeasonSpecialsAt(s, i) ==
  /\ StartsWithAt(s, i + 1, LitDash \o LitSpecials)
  /\ i + 11 = Len(s)

SEASON_REGEX(s) ==
  LET I == {i \in 0..Len(s) : SeasonDigitsAt(s, i) \/ SeasonSpecialsAt(s, i)}
  IN IF I = {} THEN [matched |-> FALSE, group1 |-> << >>, group2 |-> << >>]
     ELSE LET i == SetMax(I)
          IN IF SeasonDigitsAt(s, i)
             THEN [matched |-> TRUE, group1 |-> SubSeq(s, i + 11, Len(s)),
                   group2 |-> << >>]
             ELSE [matched |-> TRUE, group1 |-> << >>, group2 |-> LitSpecials]

(* ------------------------------ Content -------------------------------- *)
POSTER_URL == "https://theposterdb.com/api/assets/"

(* the quoting decided by the flag alone *)
must_quote_init_FlagOnly(must_quote, title) == must_quote

(* Content.__init__, the must_quote attribute *)
must_quote_init(must_quote, title) == must_quote \/ Contains(title, LitColon)

(* the constructor parsing the season number without reclassifying *)
Content_KeepsType(poster_id, content_type, title, must_quote) ==
  LET group == YEARLESS_REGEX(title)
      season_group == SEASON_REGEX(title)
  IN [poster_id |-> poster_id,
      content_type |-> content_type,
      title |-> title,
      use_year |-> FALSE,
      must_quote |-> must_quote_init(must_quote, title),
      url |-> <<POSTER_URL, poster_id>>,
      yearless_title |-> IF group.matched THEN group.group1 ELSE title,
      season_number |->
        IF ~season_group.matched THEN None
        ELSE IF season_group.group2 = LitSpecials THEN 0
        ELSE int(season_group.group1),
      sub_content |-> << >>]

(* Content.__init__; sub_content is a dict: a sequence of <<key, reference>>*)
(* pairs in insertion order.                                               *)
Content(poster_id, content_type, title, must_quote) ==
  LET group == YEARLESS_REGEX(title)
      season_group == SEASON_REGEX(title)
  IN [poster_id |-> poster_id,
      content_type |-> IF season_group.matched THEN "Season" ELSE content_type,
      title |-> title,
      use_year |-> FALSE,
      must_quote |-> must_quote_init(must_quote, title),
      url |-> <<POSTER_URL, poster_id>>,
      yearless_title |-> IF group.matched THEN group.group1 ELSE title,
      season_number |->
        IF ~season_group.matched THEN None
        ELSE IF season_group.group2 = LitSpecials THEN 0
        ELSE int(season_group.group1),
      sub_content |-> << >>]

(* the yearless title shown whatever use_year says *)
final_title_NoYear(o) ==
  IF o.must_quote THEN <<"\"">> \o o.yearless_title \o <<"\"">>
  ELSE o.yearless_title

(* Content.final_title *)
final_title(o) ==
  LET title == IF o.use_year THEN o.title ELSE o.yearless_title
  IN IF o.must_quote THEN <<"\"">> \o title \o <<"\"">> ELSE title

(* the test without the guard on the two content types *)
is_sub_content_of_NoTypeCheck(self, c) ==
  /\ c.yearless_title = self.yearless_title
  /\ Contains(self.title, c.title)

(* the test without the comparison of the yearless titles *)
is_sub_content_of_TitleOnly(self, c) ==
  IF self.content_type # "Season" \/ c.content_type # "Show" THEN FALSE
  ELSE Contains(self.title, c.title)

(* the substring test the wrong way round *)
is_sub_content_of_Reversed(self, c) ==
  IF self.content_type # "Season" \/ c.content_type # "Show" THEN FALSE
  ELSE /\ c.yearless_title = self.yearless_title
       /\ Contains(c.title, self.title)

(* Content.is_sub_content_of: self is the season, c the candidate show *)
is_sub_content_of(self, c) ==
  IF self.content_type # "Season" \/ c.content_type # "Show" THEN FALSE
  ELSE /\ c.yearless_title = self.yearless_title
       /\ Contains(self.title, c.title)

(* Content.is_parent_content_of *)
is_parent_content_of(self, c) == is_sub_content_of(c, self)

(* dict[key] = value: an existing key keeps its place, a new key goes last *)
DictSet(d, key, value) ==
  IF \E j \in 1..Len(d) : d[j][1] = key
  THEN [j \in 1..Len(d) |-> IF d[j][1] = key THEN <<key, value>> ELSE d[j]]
  ELSE Append(d, <<key, value>>)

DictGet(d, key) == (CHOOSE j \in 1..Len(d) : d[j][1] = key)

DictKeys(d) == [j \in 1..Len(d) |-> d[j][1]]

DictValues(d) == {d[j][2] : j \in 1..Len(d)}

(* Content.add_sub_content *)
add_sub_content(self, c, ref) == DictSet(self.sub_content, c.season_number, ref)

(* ---------------------------- ContentList ------------------------------ *)
(* ContentList.__init__: the four buckets, in dict order *)
BucketOrder == <<"Collection", "Movie", "Show", "Season">>

BucketKeys == {BucketOrder[j] : j \in 1..Len(BucketOrder)}

EmptyContent == [t \in BucketKeys |-> << >>]

(* the second loop stopping at the first season it adopts *)
RECURSIVE AdoptSeasons_FirstOnly(_, _, _, _)
AdoptSeasons_FirstOnly(os, n, seasons, j) ==
  IF j > Len(seasons) THEN os
  ELSE LET e == seasons[j]
       IN IF is_parent_content_of(os[n], os[e])
          THEN [os EXCEPT ![n].sub_content = add_sub_content(os[n], os[e], e)]
          ELSE AdoptSeasons_FirstOnly(os, n, seasons, j + 1)

(* second loop of add_content: the new record adopts, in bucket order,     *)
(* every stored season it is the parent of                                 *)
RECURSIVE AdoptSeasons(_, _, _, _)
AdoptSeasons(os, n, seasons, j) ==
  IF j > Len(seasons) THEN os
  ELSE LET e == seasons[j]
           os1 == IF is_parent_content_of(os[n], os[e])
                  THEN [os EXCEPT ![n].sub_content =
                                    add_sub_content(os[n], os[e], e)]
                  ELSE os
       IN AdoptSeasons(os1, n, seasons, j + 1)

(* the first loop attaching to the last matching show instead *)
AttachToShow_Last(os, n, shows) ==
  LET M == {j \in 1..Len(shows) : is_sub_content_of(os[n], os[shows[j]])}
  IN IF M = {} THEN os
     ELSE LET e == shows[CHOOSE j \in M : \A k \in M : j >= k]
          IN [os EXCEPT ![e].sub_content = add_sub_content(os[e], os[n], n)]

(* first loop of add_content: the first stored show the new record is a    *)
(* sub content of takes it; the loop stops there                           *)
AttachToShow(os, n, shows) ==
  LET M == {j \in 1..Len(shows) : is_sub_content_of(os[n], os[shows[j]])}
  IN IF M = {} THEN os
     ELSE LET e == shows[CHOOSE j \in M : \A k \in M : j <= k]
          IN [os EXCEPT ![e].sub_content = add_sub_content(os[e], os[n], n)]

(* the title compared with every stored object, whatever its bucket *)
SameTitleStored_AnyBucket(os, n, bucket) ==
  \E j \in 1..(n - 1) : os[j].title = os[n].title

(* third loop of add_content: a stored record of the same bucket has the   *)
(* same title                                                              *)
SameTitleStored(os, n, bucket) ==
  \E j \in 1..Len(bucket) : os[bucket[j]].title = os[n].title

(* add_content flagging the newest of the records of a title and clearing  *)
(* the flag of the stored ones                                             *)
add_content_ResetsOthers(reg, new) ==
  LET n == Len(reg.objs) + 1
      os0 == Append(reg.objs, new)
      os1 == AttachToShow(os0, n, reg.content["Show"])
      os2 == AdoptSeasons(os1, n, reg.content["Season"], 1)
      ty == new.content_type
  IN IF ty \notin BucketKeys
     THEN [objs |-> os2, content |-> reg.content, raised |-> "KeyError"]
     ELSE LET same == SameTitleStored(os2, n, reg.content[ty])
              os3 == [j \in 1..n |->
                        IF j = n THEN [os2[j] EXCEPT !.use_year = same]
                        ELSE IF os2[j].title = new.title
                                /\ os2[j].content_type = ty
                        THEN [os2[j] EXCEPT !.use_year = FALSE]
                        ELSE os2[j]]
          IN [objs |-> os3,
              content |-> [reg.content EXCEPT ![ty] = Append(@, n)],
              raised |-> "none"]

(* add_content inserting the new record at the head of its bucket *)
add_content_Prepends(reg, new) ==
  LET n == Len(reg.objs) + 1
      os0 == Append(reg.objs, new)
      os1 == AttachToShow(os0, n, reg.content["Show"])
      os2 == AdoptSeasons(os1, n, reg.content["Season"], 1)
      ty == new.content_type
  IN IF ty \notin BucketKeys
     THEN [objs |-> os2, content |-> reg.content, raised |-> "KeyError"]
     ELSE LET os3 == IF SameTitleStored(os2, n, reg.content[ty])
                     THEN [os2 EXCEPT ![n].use_year = TRUE]
                     ELSE os2
          IN [objs |-> os3,
              content |-> [reg.content EXCEPT ![ty] = <<n>> \o @],
              raised |-> "none"]

(* ContentList.add_content(new) on the registry reg = [objs, content].     *)
(* The new object gets the next reference. Indexing self.content with a    *)
(* content type that is not a key raises KeyError, after the first two     *)
(* loops have run.                                                         *)
add_content(reg, new) ==
  LET n == Len(reg.objs) + 1
      os0 == Append(reg.objs, new)
      os1 == AttachToShow(os0, n, reg.content["Show"])
      os2 == AdoptSeasons(os1, n, reg.content["Season"], 1)
      ty == new.content_type
  IN IF ty \notin BucketKeys
     THEN [objs |-> os2, content |-> reg.content, raised |-> "KeyError"]
     ELSE LET os3 == IF SameTitleStored(os2, n, reg.content[ty])
                     THEN [os2 EXCEPT ![n].use_year = TRUE]
                     ELSE os2
          IN [objs |-> os3,
              content |-> [reg.content EXCEPT ![ty] = Append(@, n)],
              raised |-> "none"]

(* ------------------------------ rendering ------------------------------ *)
(* One printed line. kind names the line's shape; the other fields carry   *)
(* what the f-string interpolates.                                         *)
Line(kind, text, type, num, url) ==
  [kind |-> kind, text |-> text, type |-> type, num |-> num, url |-> url]

NoUrl == <<"", 0>>

(* the keys left in insertion order *)
sorted_Unsorted(keys) == keys

RECURSIVE sorted(_)
sorted(keys) ==
  IF keys = << >> THEN << >>
  ELSE LET m == CHOOSE j \in 1..Len(keys) :
                  /\ \A k \in 1..Len(keys) : keys[j] <= keys[k]
                  /\ \A k \in 1..(j - 1) : keys[k] # keys[j]
           rest == [k \in 1..(Len(keys) - 1) |->
                      IF k < m THEN keys[k] ELSE keys[k + 1]]
       IN <<keys[m]>> \o sorted(rest)

RECURSIVE Flatten(_)
Flatten(ss) == IF ss = << >> THEN << >> ELSE Head(ss) \o Flatten(Tail(ss))

(* Content.__str__ of the object os[i], as a sequence of lines *)
RECURSIVE Str(_, _)
Str(os, i) ==
  LET o == os[i]
      base == <<Line("title", final_title(o) \o <<":">>, "", 0, NoUrl),
                Line("url_poster", << >>, "", 0, o.url)>>
  IN IF o.content_type \in {"Collection", "Movie"} THEN base
     ELSE IF o.content_type = "Show"
     THEN IF Len(o.sub_content) > 0
          THEN LET keys == sorted(DictKeys(o.sub_content))
                   sub == [j \in 1..Len(keys) |->
                             Str(os, o.sub_content[DictGet(o.sub_content,
                                                          keys[j])][2])]
               IN base \o <<Line("seasons", << >>, "", 0, NoUrl)>>
                       \o Flatten(sub)
          ELSE base
     ELSE IF o.content_type = "Season"
     THEN <<Line("season", << >>, "", o.season_number, o.url)>>
     ELSE <<Line("bad", << >>, o.content_type, 0, NoUrl)>>

(* the loop body without the test that skips the Season bucket *)
PrintBucket_SeasonsToo(os, content_type, content_list) ==
  IF Len(content_list) = 0 THEN << >>
  ELSE <<Line("divider", << >>, "", 0, NoUrl),
         Line("header", << >>, content_type, 0, NoUrl)>>
       \o Flatten([j \in 1..Len(content_list) |-> Str(os, content_list[j])])

(* the body of the loop of ContentList.print for one bucket *)
PrintBucket(os, content_type, content_list) ==
  IF Len(content_list) = 0 \/ content_type = "Season" THEN << >>
  ELSE <<Line("divider", << >>, "", 0, NoUrl),
         Line("header", << >>, content_type, 0, NoUrl)>>
       \o Flatten([j \in 1..Len(content_list) |-> Str(os, content_list[j])])

(* ContentList.print: the lines written, buckets in dict order *)
print(os, c) ==
  Flatten([j \in 1..Len(BucketOrder) |->
             PrintBucket(os, BucketOrder[j], c[BucketOrder[j]])])

(* ------------------------------- inputs -------------------------------- *)
Alpha == <<"A", "l", "p", "h", "a">>
Bar == <<"B", "a", "r">>
Year2020 == <<" ", "(", "2", "0", "2", "0", ")">>
SeasonSuffix(digits) == LitDash \o LitSeason \o digits
SpecialsSuffix == LitDash \o LitSpecials

(* what the scraper declares: the three poster types of the site and one   *)
(* it does not know                                                        *)
DeclaredTypes == {"Collection", "Movie", "Show", "Album"}

Poster(content_type, title) == [content_type |-> content_type, title |-> title]

(* before the loop of main has read a poster element *)
NoPoster == Poster("", << >>)

(* the poster entries a page is made of *)
Posters ==
  {Poster("Movie", Alpha),
   Poster("Collection", Alpha),
   Poster("Album", Alpha),
   Poster("Movie", <<"A">> \o LitColon \o <<"B">>),
   Poster("Show", Bar \o Year2020),
   Poster("Show", Bar),
   Poster("Show", Bar \o Year2020 \o SeasonSuffix(<<"1">>)),
   Poster("Show", Bar \o Year2020 \o SeasonSuffix(<<"2">>)),
   Poster("Show", Bar \o SeasonSuffix(<<"1">>))}

(* title fragments and the titles made of up to MaxChunks of them *)
Chunks ==
  {<<"A">>, Year2020, <<" ", "(", "7", ")">>, SeasonSuffix(<<"1", "2">>),
   SpecialsSuffix, LitSpecials, LitColon}

RECURSIVE ChunkTitles(_)
ChunkTitles(n) ==
  IF n = 0 THEN {<< >>}
  ELSE LET T == ChunkTitles(n - 1)
       IN T \cup {t \o c : t \in T, c \in Chunks}

ParseTitles == ChunkTitles(MaxChunks)

(* --------------------------- state machine ----------------------------- *)
Init ==
  /\ objs = << >>
  /\ content = EmptyContent
  /\ always_quote \in BOOLEAN
  /\ raised = "none"
  /\ stdout = << >>
  /\ poster_element = NoPoster

(* main: one Content is built from the next poster element and added *)
AddContent ==
  /\ raised = "none"
  /\ stdout = << >>
  /\ Len(objs) < MaxRecords
  /\ \E p \in Posters :
       LET new == Content(Len(objs) + 1, p.content_type, p.title, always_quote)
           r == add_content([objs |-> objs, content |-> content], new)
       IN /\ objs' = r.objs
          /\ content' = r.content
          /\ raised' = r.raised
          /\ poster_element' = p
  /\ UNCHANGED <<always_quote, stdout>>

(* a print that empties the sub_content of the records it renders *)
CallPrint_Consuming ==
  /\ raised = "none"
  /\ Len(stdout) < MaxPrints
  /\ stdout' = Append(stdout, print(objs, content))
  /\ objs' = [j \in 1..Len(objs) |-> [objs[j] EXCEPT !.sub_content = << >>]]
  /\ UNCHANGED <<content, always_quote, raised, poster_element>>

(* content_list.print(): stdout holds the lines of each call, in call order *)
CallPrint ==
  /\ raised = "none"
  /\ Len(stdout) < MaxPrints
  /\ stdout' = Append(stdout, print(objs, content))
  /\ UNCHANGED <<objs, content, always_quote, raised, poster_element>>

Next == AddContent \/ CallPrint

Spec == Init /\ [][Next]_vars

(* the constructor alone, on any title and declared type *)
Construct ==
  /\ objs = << >>
  /\ \E t \in ParseTitles, ty \in DeclaredTypes :
       /\ objs' = <<Content(1, ty, t, always_quote)>>
       /\ poster_element' = Poster(ty, t)
  /\ UNCHANGED <<content, always_quote, raised, stdout>>

NextParse == Construct

SpecParse == Init /\ [][NextParse]_vars

TypeOK ==
  /\ raised \in {"none", "KeyError"}
  /\ always_quote \in BOOLEAN
  /\ DOMAIN content = BucketKeys
  /\ Len(objs) <= MaxRecords
  /\ Len(stdout) <= MaxPrints

(* ------------------------- shared vocabulary --------------------------- *)
Registry == [objs |-> objs, content |-> content]

(* references of the records stored in the buckets *)
Stored(c) == UNION {{c[t][j] : j \in 1..Len(c[t])} : t \in BucketKeys}

(* the shows of the Show bucket that hold the record s as a child *)
OwnersOf(os, c, s) ==
  {c["Show"][j] : j \in {k \in 1..Len(c["Show"]) :
                           s \in DictValues(os[c["Show"][k]].sub_content)}}

(* the children mappings of a registry, by poster id:                      *)
(* <<show id, season number, child id>>                                    *)
ChildrenById(reg) ==
  UNION {{<<reg.objs[h].poster_id,
            reg.objs[h].sub_content[j][1],
            reg.objs[reg.objs[h].sub_content[j][2]].poster_id>> :
            j \in 1..Len(reg.objs[h].sub_content)} :
         h \in {reg.content["Show"][k] : k \in 1..Len(reg.content["Show"])}}

(* s[p..p+6] is a space and a parenthesised four-digit year *)
IsYear4At(s, p) ==
  /\ StartsWithAt(s, p, LitOpenParen)
  /\ p + 6 <= Len(s)
  /\ \A k \in (p + 2)..(p + 5) : IsDigit(s[k])
  /\ s[p + 6] = ")"

(* s is "X (YYYY)" with X = s[1..i] *)
FormYear(s, i) == IsYear4At(s, i + 1) /\ Len(s) = i + 7

(* s is "X (YYYY) - Season N" with X = s[1..i] *)
FormYearSeason(s, i) ==
  /\ IsYear4At(s, i + 1)
  /\ StartsWithAt(s, i + 8, LitDash \o LitSeason)
  /\ i + 18 <= Len(s)
  /\ \A k \in (i + 18)..Len(s) : IsDigit(s[k])

(* s is "X (YYYY) - Specials" with X = s[1..i] *)
FormYearSpecials(s, i) ==
  /\ IsYear4At(s, i + 1)
  /\ SubSeq(s, i + 8, Len(s)) = SpecialsSuffix

(* ------------------------------- claims -------------------------------- *)

(* C1: order-independence of show/season linkage. In every registry state  *)
(* reached by add_content calls, for every Show record H and Season record *)
(* S that belongs to H, adding H then S and adding S then H give the same  *)
(* children mapping for every Show of the registry.                        *)
C1_OrderIndependent ==
  (raised = "none" /\ stdout = << >>) =>
    \A hp \in Posters, sp \in Posters :
      LET n == Len(objs)
          H == Content(n + 1, hp.content_type, hp.title, always_quote)
          S == Content(n + 2, sp.content_type, sp.title, always_quote)
          hs == add_content(add_content(Registry, H), S)
          sh == add_content(add_content(Registry, S), H)
      IN is_sub_content_of(S, H) => ChildrenById(hs) = ChildrenById(sh)

(* C2: a season belongs to at most one show: in every reachable registry   *)
(* state each Season record is a child of at most one Show record.         *)
C2_SeasonInAtMostOneShow ==
  \A j \in 1..Len(content["Season"]) :
    Cardinality(OwnersOf(objs, content, content["Season"][j])) <= 1

(* C3: collision rule. When add_content adds a record, the new record ends *)
(* with use_year true exactly when a record already stored in the bucket   *)
(* of its own content type has an equal raw title, and the use_year of     *)
(* those already-stored records is left unchanged.                         *)
C3_CollisionRule ==
  [][(AddContent /\ raised' = "none") =>
       LET n == Len(objs')
           bucket == content[objs'[n].content_type]
           same == {j \in 1..Len(bucket) :
                      objs[bucket[j]].title = objs'[n].title}
       IN /\ objs'[n].use_year = (same # {})
          /\ \A j \in same : objs'[bucket[j]].use_year = objs[bucket[j]].use_year
          /\ (same # {} =>
                ~objs'[bucket[CHOOSE j \in same : \A k \in same : j <= k]].use_year)
    ]_vars

(* two stored movies with the same raw title: the first without use_year,  *)
(* the second with it                                                      *)
C3_Witness ==
  \E j, k \in 1..Len(content["Movie"]) :
    /\ j < k
    /\ objs[content["Movie"][j]].title = objs[content["Movie"][k]].title
    /\ ~objs[content["Movie"][j]].use_year
    /\ objs[content["Movie"][k]].use_year

(* C4: a record whose content type is none of the four known ones is not   *)
(* rejected: add_content does not raise, the record is kept in the         *)
(* registry, and a render emits a bad-type placeholder line for it.        *)
C4_BadTypeKept ==
  \A j \in 1..Len(objs) :
    objs[j].content_type \notin BucketKeys =>
      /\ raised = "none"
      /\ j \in Stored(content)
      /\ \A p \in 1..Len(stdout) :
           \E q \in 1..Len(stdout[p]) :
             stdout[p][q].kind = "bad" /\ stdout[p][q].type = objs[j].content_type

(* C5: year stripping covers the Specials suffix: for every raw title of   *)
(* the form "X (YYYY) - Specials" the constructed record's yearless_title  *)
(* is X.                                                                   *)
C5_SpecialsYearStripped ==
  \A j \in 1..Len(objs) :
    \A i \in 0..Len(objs[j].title) :
      FormYearSpecials(objs[j].title, i) =>
        objs[j].yearless_title = SubSeq(objs[j].title, 1, i)

RECURSIVE HeaderTypes(_)
HeaderTypes(out) ==
  IF out = << >> THEN << >>
  ELSE IF Head(out).kind = "header"
       THEN <<Head(out).type>> \o HeaderTypes(Tail(out))
       ELSE HeaderTypes(Tail(out))

(* the lines of the section of type t: after its first header, before the *)
(* next divider                                                            *)
SectionOf(out, t) ==
  LET H == {h \in 1..Len(out) : out[h].kind = "header" /\ out[h].type = t}
  IN IF H = {} THEN << >>
     ELSE LET h == CHOOSE x \in H : \A y \in H : x <= y
              D == {k \in (h + 1)..Len(out) : out[k].kind = "divider"}
              e == IF D = {} THEN Len(out) + 1
                   ELSE CHOOSE x \in D : \A y \in D : x <= y
          IN SubSeq(out, h + 1, e - 1)

IsUrlLine(l) == l.kind = "url_poster"

(* the poster ids of the url_poster lines of sec, in line order *)
UrlIds(sec) ==
  LET U == SelectSeq(sec, IsUrlLine)
  IN [j \in 1..Len(U) |-> U[j].url[2]]

(* the position of the url_poster line of the block that line q is in *)
BlockOf(out, q) ==
  LET B == {b \in 1..q : out[b].kind = "url_poster"}
  IN IF B = {} THEN 0 ELSE CHOOSE x \in B : \A y \in B : y <= x

(* the poster ids of a bucket, in bucket order *)
BucketIds(os, bucket) == [j \in 1..Len(bucket) |-> os[bucket[j]].poster_id]

(* the order of the top-level sections *)
DisplayOrder == <<"Collection", "Movie", "Show">>

RECURSIVE NonEmptyTypes(_, _)
NonEmptyTypes(c, types) ==
  IF types = << >> THEN << >>
  ELSE IF c[Head(types)] # << >>
       THEN <<Head(types)>> \o NonEmptyTypes(c, Tail(types))
       ELSE NonEmptyTypes(c, Tail(types))

(* C7: season sorting. In every printed output the nested season lines of  *)
(* a show are in strictly ascending order of season number, whatever the   *)
(* order in which the seasons were attached.                               *)
C7_SeasonsSorted ==
  \A p \in 1..Len(stdout) :
    \A q \in 1..(Len(stdout[p]) - 1) :
      (stdout[p][q].kind = "season" /\ stdout[p][q + 1].kind = "season") =>
        stdout[p][q].num < stdout[p][q + 1].num

(* a printed show whose children were attached in descending order *)
C7_Witness ==
  /\ stdout # << >>
  /\ \E j \in 1..Len(content["Show"]) :
       LET d == objs[content["Show"][j]].sub_content
       IN Len(d) >= 2 /\ d[1][1] > d[2][1]
  /\ \E q \in 1..(Len(stdout[1]) - 1) :
       stdout[1][q].kind = "season" /\ stdout[1][q + 1].kind = "season"

(* C8: render sections. Every printed output has the sections of the       *)
(* non-empty buckets among Collection, Movie, Show, in that order, and no  *)
(* other; the blocks of a section are the bucket's records in insertion    *)
(* order; no Season record is a top-level block; a season line is nested   *)
(* under a Show that has the season as a child.                            *)
C8_RenderSections ==
  \A p \in 1..Len(stdout) :
    LET out == stdout[p]
    IN /\ HeaderTypes(out) = NonEmptyTypes(content, DisplayOrder)
       /\ \A j \in 1..Len(DisplayOrder) :
            LET t == DisplayOrder[j]
                sec == SectionOf(out, t)
            IN /\ UrlIds(sec) = BucketIds(objs, content[t])
               /\ \A q \in 1..Len(sec) : sec[q].kind = "title" =>
                    /\ q + 1 <= Len(sec)
                    /\ sec[q + 1].kind = "url_poster"
                    /\ sec[q].text =
                         final_title(objs[sec[q + 1].url[2]]) \o <<":">>
       /\ \A q \in 1..Len(out) :
            /\ out[q].kind = "url_poster" =>
                 objs[out[q].url[2]].content_type # "Season"
            /\ out[q].kind = "season" =>
                 LET b == BlockOf(out, q)
                 IN /\ b > 0
                    /\ LET h == out[b].url[2]
                       IN /\ objs[h].content_type = "Show"
                          /\ out[q].url[2] \in DictValues(objs[h].sub_content)
                          /\ objs[out[q].url[2]].content_type = "Season"
                          /\ objs[out[q].url[2]].season_number = out[q].num

(* an output printed from a registry with an empty Collection bucket, a    *)
(* movie, a show with a child and a season that no show owns               *)
C8_Witness ==
  /\ stdout # << >>
  /\ content["Collection"] = << >>
  /\ content["Movie"] # << >>
  /\ \E j \in 1..Len(content["Show"]) :
       objs[content["Show"][j]].sub_content # << >>
  /\ \E j \in 1..Len(content["Season"]) :
       OwnersOf(objs, content, content["Season"][j]) = {}

(* C9: quoting. must_quote of every record is, in every state, true        *)
(* exactly when the always-quote flag is true or the raw title contains    *)
(* ": "; and every printed title of a Collection, Movie or Show record     *)
(* whose raw title contains ": " is wrapped in double quotes.              *)
C9_Quoting ==
  /\ \A j \in 1..Len(objs) :
       objs[j].must_quote = (always_quote \/ Contains(objs[j].title, LitColon))
  /\ \A p \in 1..Len(stdout) :
       \A q \in 1..(Len(stdout[p]) - 1) :
         (/\ stdout[p][q].kind = "title"
          /\ Contains(objs[stdout[p][q + 1].url[2]].title, LitColon)) =>
           LET text == stdout[p][q].text
           IN /\ Len(text) >= 3
              /\ text[1] = "\""
              /\ text[Len(text) - 1] = "\""

(* a title with ": " printed while the always-quote flag is off *)
C9_Witness ==
  /\ ~always_quote
  /\ \E p \in 1..Len(stdout) :
       \E q \in 1..(Len(stdout[p]) - 1) :
         /\ stdout[p][q].kind = "title"
         /\ Contains(objs[stdout[p][q + 1].url[2]].title, LitColon)
         /\ stdout[p][q].text[1] = "\""

(* the four records of the end-to-end example have been added, in order,   *)
(* and the registry has been printed                                       *)
EndToEndPrinted ==
  /\ stdout # << >>
  /\ Len(objs) = 4
  /\ objs[1].title = Alpha /\ objs[1].content_type = "Movie"
  /\ objs[2].title = Alpha /\ objs[2].content_type = "Movie"
  /\ objs[3].title = Bar \o Year2020 /\ objs[3].content_type = "Show"
  /\ objs[4].title = Bar \o Year2020 \o SeasonSuffix(<<"1">>)
  /\ objs[4].content_type = "Season"

(* the title the always-quote flag makes of a bare title *)
Shown(title) == IF always_quote THEN <<"\"">> \o title \o <<"\"">> ELSE title

(* the Show section of the example: one show titled Bar with one nested    *)
(* season, numbered 1                                                      *)
EndToEndShowPart(out) ==
  /\ Len(out) = 12
  /\ out[7].kind = "divider"
  /\ out[8].kind = "header" /\ out[8].type = "Show"
  /\ out[9].kind = "title" /\ out[9].text = Shown(Bar) \o <<":">>
  /\ out[10].kind = "url_poster" /\ out[10].url = <<POSTER_URL, 3>>
  /\ out[11].kind = "seasons"
  /\ out[12].kind = "season" /\ out[12].num = 1
  /\ out[12].url = <<POSTER_URL, 4>>

(* the Movie section of the example: two entries, posters 1 and 2 *)
EndToEndMoviePart(out) ==
  /\ Len(out) >= 6
  /\ out[1].kind = "divider"
  /\ out[2].kind = "header" /\ out[2].type = "Movie"
  /\ out[3].kind = "title"
  /\ out[4].kind = "url_poster" /\ out[4].url = <<POSTER_URL, 1>>
  /\ out[5].kind = "title"
  /\ out[6].kind = "url_poster" /\ out[6].url = <<POSTER_URL, 2>>

(* C10 as stated: after the end-to-end example the output has two Movie    *)
(* entries whose title lines differ from each other, and one Show entry    *)
(* titled Bar with exactly one nested season, numbered 1.                  *)
C10_TitlesDiffer ==
  EndToEndPrinted =>
    \A p \in 1..Len(stdout) :
      /\ EndToEndMoviePart(stdout[p])
      /\ stdout[p][3].text # stdout[p][5].text
      /\ EndToEndShowPart(stdout[p])

(* C10 as amended: after the end-to-end example the output has two Movie   *)
(* entries with the same title line, Alpha (the second record has use_year *)
(* set, and its raw title is its yearless title), and one Show entry       *)
(* titled Bar with exactly one nested season, numbered 1.                  *)
C10_EndToEnd ==
  EndToEndPrinted =>
    /\ ~objs[1].use_year
    /\ objs[2].use_year
    /\ \A p \in 1..Len(stdout) :
         /\ EndToEndMoviePart(stdout[p])
         /\ stdout[p][3].text = Shown(Alpha) \o <<":">>
         /\ stdout[p][5].text = Shown(Alpha) \o <<":">>
         /\ EndToEndShowPart(stdout[p])

C10_Witness == EndToEndPrinted /\ ~always_quote

(* C11: in every reachable registry state, every record has a season      *)
(* number exactly when its content type is Season.                         *)
C11_SeasonNumberIffSeason ==
  \A j \in 1..Len(objs) :
    (objs[j].season_number # None) <=> (objs[j].content_type = "Season")

(* a registry holding a season that is the child of a show, a season that  *)
(* no show owns, and a movie                                               *)
C11_Witness ==
  /\ \E j \in 1..Len(content["Show"]) :
       objs[content["Show"][j]].sub_content # << >>
  /\ \E j \in 1..Len(content["Season"]) :
       /\ OwnersOf(objs, content, content["Season"][j]) = {}
       /\ objs[content["Season"][j]].season_number = 1
  /\ content["Movie"] # << >>

(* C12: in every reachable registry state, every child of a Show record is *)
(* a Season record, and Collection, Movie and Season records have no       *)
(* children.                                                               *)
C12_ChildrenAreSeasons ==
  \A j \in 1..Len(objs) :
    /\ \A r \in DictValues(objs[j].sub_content) :
         objs[r].content_type = "Season"
    /\ objs[j].content_type \in {"Collection", "Movie", "Season"} =>
         objs[j].sub_content = << >>

(* a show with a child, next to a movie and a show without year that       *)
(* shares the yearless title                                               *)
C12_Witness ==
  /\ content["Movie"] # << >>
  /\ \E j, k \in 1..Len(content["Show"]) :
       /\ j # k
       /\ objs[content["Show"][j]].sub_content # << >>
       /\ objs[content["Show"][j]].yearless_title =
            objs[content["Show"][k]].yearless_title
       /\ objs[content["Show"][j]].title # objs[content["Show"][k]].title

(* C13: use_year is monotonic: no step (add_content or print) resets a     *)
(* record's use_year from true to false.                                   *)
C13_UseYearMonotonic ==
  [][\A j \in 1..Len(objs) : objs[j].use_year => objs'[j].use_year]_vars

(* a record with use_year set, followed by a later record of the same      *)
(* title and bucket, after a print                                         *)
C13_Witness ==
  /\ stdout # << >>
  /\ \E j, k \in 1..Len(objs) :
       /\ j < k
       /\ objs[j].use_year
       /\ objs[k].title = objs[j].title
       /\ objs[k].content_type = objs[j].content_type

(* C14: render idempotence: a print leaves the buckets and every record    *)
(* unchanged, and a print of the registry that was printed before writes   *)
(* the same output again.                                                  *)
C14_RenderIdempotent ==
  [][(stdout' # stdout) =>
       /\ objs' = objs
       /\ content' = content
       /\ (stdout # << >> => stdout'[Len(stdout')] = stdout[Len(stdout)])
    ]_vars

(* two prints of a registry with a show of two children attached in        *)
(* descending order and a record with use_year                             *)
C14_Witness ==
  /\ Len(stdout) >= 2
  /\ \E j \in 1..Len(objs) : objs[j].use_year
  /\ \E j \in 1..Len(content["Show"]) :
       LET d == objs[content["Show"][j]].sub_content
       IN Len(d) >= 2 /\ d[1][1] > d[2][1]

(* the season s matches the show h as the adoption rule words it: equal    *)
(* yearless titles, and the raw title of h inside the raw title of s       *)
Matches(s, h) ==
  /\ s.yearless_title = h.yearless_title
  /\ Contains(s.title, h.title)

(* the step added a record without raising *)
Added == Len(objs') = Len(objs) + 1 /\ raised' = "none"

(* C15 as stated: after add_content adds a Show record H, every Season     *)
(* already stored in the Season bucket that matches H is a child of H,     *)
(* also when several of them carry the same season number.                 *)
C15_AllOrphansAdopted ==
  [][(Added /\ objs'[Len(objs')].content_type = "Show") =>
       LET H == objs'[Len(objs')]
           seasons == content["Season"]
       IN \A j \in 1..Len(seasons) :
            Matches(objs[seasons[j]], H) =>
              seasons[j] \in DictValues(H.sub_content)
    ]_vars

(* C15 as amended: after add_content adds a Show record H, every Season    *)
(* already stored in the Season bucket that matches H is a child of H,     *)
(* unless a matching Season stored later in the bucket has the same season *)
(* number; of the matching seasons of one number the last stored is the    *)
(* child.                                                                  *)
C15_LastOrphanPerNumberAdopted ==
  [][(Added /\ objs'[Len(objs')].content_type = "Show") =>
       LET H == objs'[Len(objs')]
           seasons == content["Season"]
           M == {j \in 1..Len(seasons) : Matches(objs[seasons[j]], H)}
       IN /\ \A j \in M :
               (\A k \in M : k > j =>
                  objs[seasons[k]].season_number #
                    objs[seasons[j]].season_number)
               <=> seasons[j] \in DictValues(H.sub_content)
          /\ DictValues(H.sub_content) \subseteq {seasons[j] : j \in M}
    ]_vars

(* a show that arrived after three matching seasons, two of the same       *)
(* number: it holds the later of those two and the season of the other     *)
(* number                                                                  *)
C15_Witness ==
  \E h \in 1..Len(objs) :
    /\ objs[h].content_type = "Show"
    /\ \E a, b, c \in 1..(h - 1) :
         /\ a < b
         /\ objs[a].content_type = "Season" /\ Matches(objs[a], objs[h])
         /\ objs[b].content_type = "Season" /\ Matches(objs[b], objs[h])
         /\ objs[c].content_type = "Season" /\ Matches(objs[c], objs[h])
         /\ objs[a].season_number = objs[b].season_number
         /\ objs[c].season_number # objs[a].season_number
         /\ DictValues(objs[h].sub_content) = {b, c}

(* C16: first match wins on attach. When add_content adds a Season, the    *)
(* first Show of the Show bucket that matches it takes it as a child and   *)
(* the children of every other stored Show are unchanged; when the new     *)
(* record is not a Season, the children of every stored Show are unchanged.*)
C16_FirstMatchWins ==
  [][(Len(objs') = Len(objs) + 1) =>
       LET n == Len(objs')
           new == objs'[n]
           shows == content["Show"]
           M == {j \in 1..Len(shows) : Matches(new, objs[shows[j]])}
       IN IF new.content_type = "Season" /\ M # {}
          THEN LET first == CHOOSE j \in M : \A k \in M : j <= k
               IN /\ n \in DictValues(objs'[shows[first]].sub_content)
                  /\ n \notin DictValues(objs[shows[first]].sub_content)
                  /\ \A j \in 1..Len(shows) :
                       j # first =>
                         objs'[shows[j]].sub_content = objs[shows[j]].sub_content
          ELSE \A j \in 1..Len(shows) :
                 objs'[shows[j]].sub_content = objs[shows[j]].sub_content
    ]_vars

(* a season that arrived after two shows that both match it: the first     *)
(* show of the bucket holds it, the second does not                        *)
C16_Witness ==
  \E s \in 1..Len(objs) :
    /\ objs[s].content_type = "Season"
    /\ \E j, k \in 1..Len(content["Show"]) :
         LET h1 == content["Show"][j]
             h2 == content["Show"][k]
         IN /\ j < k
            /\ h2 < s
            /\ Matches(objs[s], objs[h1])
            /\ Matches(objs[s], objs[h2])
            /\ s \in DictValues(objs[h1].sub_content)
            /\ s \notin DictValues(objs[h2].sub_content)

(* t is "X - Season N" with X = t[1..i] and N one or more digits *)
EndsInSeason(t, i) ==
  /\ StartsWithAt(t, i + 1, LitDash \o LitSeason)
  /\ i + 11 <= Len(t)
  /\ \A k \in (i + 11)..Len(t) : IsDigit(t[k])

(* t is "X - Specials" *)
EndsInSpecials(t) ==
  /\ Len(t) >= Len(SpecialsSuffix)
  /\ SubSeq(t, Len(t) - Len(SpecialsSuffix) + 1, Len(t)) = SpecialsSuffix

(* C17: season classification. A record whose raw title ends in            *)
(* " - Season N" is a Season with season number N, one whose raw title     *)
(* ends in " - Specials" is a Season with season number 0, whatever type   *)
(* was declared; any other record keeps the declared type and has no       *)
(* season number.                                                          *)
C17_SeasonClassification ==
  objs # << >> =>
    LET o == objs[Len(objs)]
        t == poster_element.title
    IN /\ o.title = t
       /\ \A i \in 0..Len(t) :
            EndsInSeason(t, i) =>
              /\ o.content_type = "Season"
              /\ o.season_number = int(SubSeq(t, i + 11, Len(t)))
       /\ EndsInSpecials(t) =>
            (o.content_type = "Season" /\ o.season_number = 0)
       /\ (~EndsInSpecials(t) /\ \A i \in 0..Len(t) : ~EndsInSeason(t, i)) =>
            /\ o.content_type = poster_element.content_type
            /\ o.season_number = None

(* a poster declared Movie whose title ends in " - Season 12" after a      *)
(* season suffix in the middle of the title                                *)
C17_Witness ==
  /\ objs # << >>
  /\ poster_element.content_type = "Movie"
  /\ objs[1].content_type = "Season"
  /\ objs[1].season_number = 12
  /\ \E i \in 1..Len(objs[1].title) :
       /\ EndsInSeason(objs[1].title, i)
       /\ EndsInSpecials(SubSeq(objs[1].title, 1, i))

(* the title of the record o as step 4.3 of the renderer words it *)
DisplayedTitle(o) ==
  LET bare == IF o.use_year THEN o.title ELSE o.yearless_title
  IN IF o.must_quote THEN <<"\"">> \o bare \o <<"\"">> ELSE bare

(* C18: displayed title selection. The title line of every Collection,     *)
(* Movie and Show record shows the raw title when use_year is true and the *)
(* yearless title when it is false, and is followed by the poster-URL      *)
(* line https://theposterdb.com/api/assets/{id} of the record's id.        *)
C18_DisplayedTitle ==
  \A p \in 1..Len(stdout) :
    LET out == stdout[p]
    IN /\ \A q \in 1..Len(out) :
            out[q].kind = "title" =>
              /\ q < Len(out)
              /\ out[q + 1].kind = "url_poster"
              /\ LET o == objs[out[q + 1].url[2]]
                 IN /\ out[q + 1].url =
                         <<"https://theposterdb.com/api/assets/", o.poster_id>>
                    /\ o.content_type \in {"Collection", "Movie", "Show"}
                    /\ out[q].text = DisplayedTitle(o) \o <<":">>
       /\ \A j \in 1..Len(objs) :
            objs[j].content_type \in {"Collection", "Movie", "Show"} =>
              \E q \in 1..(Len(out) - 1) :
                /\ out[q].kind = "title"
                /\ out[q + 1].kind = "url_poster"
                /\ out[q + 1].url[2] = objs[j].poster_id

(* a printed registry with two shows of one raw title that carries a year: *)
(* the first printed with the yearless title, the second with the raw one  *)
C18_Witness ==
  /\ stdout # << >>
  /\ \E j, k \in 1..Len(content["Show"]) :
       LET a == objs[content["Show"][j]]
           b == objs[content["Show"][k]]
       IN /\ a.title = b.title
          /\ a.title # a.yearless_title
          /\ ~a.use_year
          /\ b.use_year

(* C19: the registry is append-only. An add_content call on a record of a  *)
(* known type appends that record at the end of the bucket of its          *)
(* effective content type and leaves the other buckets as they were; the   *)
(* buckets then hold exactly the records added so far, each bucket in      *)
(* arrival order and holding the records of its type.                      *)
C19_AppendOnly ==
  [][Added =>
       LET n == Len(objs')
           ty == objs'[n].content_type
       IN /\ ty \in BucketKeys
          /\ content' = [content EXCEPT ![ty] = Append(content[ty], n)]
          /\ Stored(content') = 1..n
          /\ \A t \in BucketKeys :
               /\ \A j, k \in 1..Len(content'[t]) :
                    j < k => content'[t][j] < content'[t][k]
               /\ \A j \in 1..Len(content'[t]) :
                    objs'[content'[t][j]].content_type = t
    ]_vars

(* three buckets in use, one of them with two records *)
C19_Witness ==
  /\ Len(content["Movie"]) >= 2
  /\ content["Show"] # << >>
  /\ content["Season"] # << >>

(* the title has no parenthesised run of digits *)
NoParenYear(t) ==
  ~\E p \in 1..Len(t) :
     /\ t[p] = "("
     /\ \E q \in (p + 2)..Len(t) :
          /\ t[q] = ")"
          /\ \A k \in (p + 1)..(q - 1) : IsDigit(t[k])

(* C20: a Season record whose raw title carries no parenthesised year      *)
(* keeps its raw title as yearless title, is in every reachable state the  *)
(* child of no Show, and is never rendered.                                *)
C20_YearlessSeasonOrphan ==
  \A j \in 1..Len(objs) :
    (objs[j].content_type = "Season" /\ NoParenYear(objs[j].title)) =>
      /\ objs[j].yearless_title = objs[j].title
      /\ \A h \in 1..Len(objs) : j \notin DictValues(objs[h].sub_content)
      /\ \A p \in 1..Len(stdout) :
           \A q \in 1..Len(stdout[p]) :
             stdout[p][q].kind \in {"season", "url_poster"} =>
               stdout[p][q].url[2] # objs[j].poster_id

(* a printed registry where "Bar - Season 1" arrived both before and after *)
(* the show "Bar"                                                          *)
C20_Witness ==
  /\ stdout # << >>
  /\ \E a, h, b \in 1..Len(objs) :
       /\ a < h /\ h < b
       /\ objs[h].content_type = "Show" /\ objs[h].title = Bar
       /\ objs[a].title = Bar \o SeasonSuffix(<<"1">>)
       /\ objs[b].title = Bar \o SeasonSuffix(<<"1">>)
       /\ objs[a].content_type = "Season"
====
